---- MODULE Spec2Model ----
(***************************************************************************)
(* ltc_client.helpers: the single-job progress listener                    *)
(* (ProgressListener.on_message) and the monitor that drives it            *)
(* (async_job_monitor), on one shared STOMP connection.                    *)
(*                                                                         *)
(* Also: the quantity codec (decode, encode) and the batch monitor         *)
(* (JobBatchProgressListener, monitor_jobs), each with a specification of  *)
(* its own over the same variables.                                        *)
(*                                                                         *)
(* A frame body is a sequence of tokens; " - " is one token, so that       *)
(* str.split(" - ") and json.loads are computed on the body, not assumed.  *)
(***************************************************************************)
EXTENDS Integers, Sequences, FiniteSets, TLC

\* ---------------------------------------------------------------- bounds
\* Frames the connection delivers in one run.
MaxFrames == 2
\* The total a progress payload carries; done runs from 1 to one past it.
MaxTotal == 2

\* ------------------------------------------------------------- constants
\* my_job.id of the monitored jobs (two monitors share the connection).
Jobs == {"jobA", "jobB"}

\* Mutant of Uid: every monitor call uses the same subscription id.
UidShared(j) == "uid-jobA"

\* uid = str(uuid.uuid4()): one fresh subscription id per monitor call.
Uid(j) == IF j = "jobA" THEN "uid-jobA" ELSE "uid-jobB"

\* ltc_client.api.JOB_STATUS (name -> code) for the statuses used here.
JOB_STATUS == [QueuedForMeshing |-> 10, Solving |-> 40, Complete |-> 70]

\* ltc_client.api.STATUS_JOB: the inverse of JOB_STATUS (code -> name).
STATUS_JOB(code) == CHOOSE n \in DOMAIN JOB_STATUS : JOB_STATUS[n] = code

StatusCodes == {JOB_STATUS[n] : n \in DOMAIN JOB_STATUS}

\* ------------------------------------------------------------ JSON values
\* A parsed JSON value: an object with the keys it holds, a number or an
\* array.  dash: some string inside the value contains the text " - ".
JsonValue(kind, keys, d, t, s, dash) ==
    [kind |-> kind, keys |-> keys, done |-> d, total |-> t, status |-> s,
     dash |-> dash]

\* {"done": d, "total": t}
Progress(d, t) == JsonValue("object", {"done", "total"}, d, t, 0, FALSE)
\* {"job_id": ..., "status": s}
StatusMsg(s) == JsonValue("object", {"job_id", "status"}, 0, 0, s, FALSE)
\* {"msg": "a - b", "done": d, "total": t}
DashProgress(d, t) ==
    JsonValue("object", {"msg", "done", "total"}, d, t, 0, TRUE)
\* {"done": d}
DoneOnly(d) == JsonValue("object", {"done"}, d, 0, 0, FALSE)
\* {}
EmptyObject == JsonValue("object", {}, 0, 0, 0, FALSE)
\* 5
NumberValue == JsonValue("number", {}, 0, 0, 0, FALSE)
\* []
ArrayValue == JsonValue("array", {}, 0, 0, 0, FALSE)

\* done below, at and past the total.
DoneValues == 1..(MaxTotal + 1)
ProgressValues == {Progress(d, MaxTotal) : d \in DoneValues}
StatusValues == {StatusMsg(JOB_STATUS.Complete), StatusMsg(JOB_STATUS.Solving)}

JsonValues ==
    ProgressValues \cup StatusValues
      \cup {DashProgress(MaxTotal, MaxTotal), DoneOnly(1), EmptyObject,
            NumberValue, ArrayValue}

\* ------------------------------------------------------------ body tokens
\* One piece of body text.  t = "sep" is the text " - "; t = "json" is the
\* part-th piece of the JSON text of v (part 0: the whole text).
Tok(t, v, part) == [t |-> t, v |-> v, part |-> part]
Sep == Tok("sep", NumberValue, 0)
TimeTok == Tok("time", NumberValue, 0)
LevelTok == Tok("level", NumberValue, 0)
JunkTok == Tok("junk", NumberValue, 0)
SpaceTok == Tok("space", NumberValue, 0)

\* json.dumps(v): the text of v; a " - " inside a string cuts it in two.
Dumps(v) ==
    IF v.dash THEN <<Tok("json", v, 1), Sep, Tok("json", v, 2)>>
    ELSE <<Tok("json", v, 0)>>

\* "HH:MM:SS - LEVEL - "
Prefix == <<TimeTok, Sep, LevelTok, Sep>>

\* ------------------------------------------------------------------ frames
\* frame.header is a list of (key, value) pairs; frame.message the body.
\* A destination "/topic/{id}.{a}.{b}..." is kept as its segments
\* <<"topic", id, a, b, ...>>.
Destination(id) == <<"topic", id, "worker", "solver", "progress">>

Destinations == {Destination(id) : id \in Jobs}

SubscriptionIds == {Uid(j) : j \in Jobs} \cup {"other-sub"}

\* The subscription header may be missing from a frame.
SubscriptionHeaders ==
    {<<>>} \cup {<< <<"subscription", s>> >> : s \in SubscriptionIds}

Bodies ==
    {Prefix \o Dumps(v) : v \in JsonValues}
      \cup {Dumps(v) : v \in JsonValues}
      \cup {Prefix \o Dumps(Progress(MaxTotal, MaxTotal)) \o <<SpaceTok>>,
            Prefix \o <<JunkTok>>, <<JunkTok>>}

Frames ==
    {[header |-> sh \o << <<"destination", d>> >>, message |-> b] :
        sh \in SubscriptionHeaders, d \in Destinations, b \in Bodies}

\* {key.decode(): value.decode() for key, value in frame.header}
Headers(frame) ==
    [k \in {frame.header[i][1] : i \in DOMAIN frame.header} |->
        LET last == CHOOSE i \in DOMAIN frame.header :
                      /\ frame.header[i][1] = k
                      /\ \A m \in DOMAIN frame.header :
                            frame.header[m][1] = k => m <= i
        IN  frame.header[last][2]]

\* str.split(" - "): the pieces of the body between its separators.
RECURSIVE Split(_)
Split(body) ==
    IF \E i \in DOMAIN body : body[i] = Sep
    THEN LET i == CHOOSE n \in DOMAIN body :
                    /\ body[n] = Sep
                    /\ \A m \in 1..(n - 1) : body[m] # Sep
         IN  <<SubSeq(body, 1, i - 1)>> \o Split(SubSeq(body, i + 1, Len(body)))
    ELSE <<body>>

\* str.strip(): the text without leading and trailing white space.
RECURSIVE Strip(_)
Strip(text) ==
    IF text # <<>> /\ Head(text) = SpaceTok THEN Strip(Tail(text))
    ELSE IF text # <<>> /\ text[Len(text)] = SpaceTok
         THEN Strip(SubSeq(text, 1, Len(text) - 1))
         ELSE text

\* json.loads(text): the value whose text this is, or JSONDecodeError.
JsonLoads(text) ==
    LET values == {v \in JsonValues : Dumps(v) = text}
    IN  IF values # {}
        THEN [ok |-> TRUE, value |-> CHOOSE v \in values : TRUE]
        ELSE [ok |-> FALSE, value |-> NumberValue]

\* time_str, level_str, mesg_str = frame.message.decode().split(" - ")
\* unpacks exactly three pieces and raises ValueError otherwise.
Unpacks(pieces) == Len(pieces) = 3

\* `"done" in data`: a key test on an object, a member test on an array,
\* a TypeError on a number.
InRaises(data) == data.kind = "number"
HasDone(data) == data.kind = "object" /\ "done" \in data.keys

\* Mutant of IsTerminal: terminal as soon as done reaches total or passes it.
IsTerminalAtLeast(data) == data.done >= data.total

\* data["done"] == data["total"]
IsTerminal(data) == data.done = data.total

\* Arguments of one callback call: callback_fn(b, tsize=..., worker=...).
\* tsize is <<>> for None and <<t>> for the number t.
CallArgs(b, tsize, worker) == [b |-> b, tsize |-> tsize, worker |-> worker]
NoCall == CallArgs(0, <<>>, "None")

\* What one call of on_message does: how it ends (returns, or the exception
\* it raises), the callback call it makes (none, or one), and whether it
\* sets self.done.
Outcome(ends, call, sets) == [ends |-> ends, call |-> call, sets |-> sets]

\* Mutant of AddressedTo: the subscription id is not compared.
AddressedToAny(headers, uid) == "subscription" \in DOMAIN headers

\* if headers["subscription"] == self.uid
AddressedTo(headers, uid) == headers["subscription"] = uid

\* The else branch of the try: json.loads, the callback, the done flag.
HandleMessage(mesg_str, callback) ==
    LET parsed == JsonLoads(Strip(mesg_str))
        data == parsed.value
    IN  IF ~parsed.ok THEN Outcome("JSONDecodeError", <<>>, FALSE)
        ELSE IF InRaises(data) THEN Outcome("TypeError", <<>>, FALSE)
        ELSE IF ~HasDone(data) THEN Outcome("return", <<>>, FALSE)
        ELSE IF "total" \notin data.keys THEN Outcome("KeyError", <<>>, FALSE)
        ELSE IF callback = "None" THEN Outcome("TypeError", <<>>, FALSE)
        ELSE Outcome("return",
                     <<CallArgs(data.done, <<data.total>>, "None")>>,
                     IsTerminal(data))

\* ProgressListener.on_message
on_message(uid, callback, frame) ==
    LET headers == Headers(frame)
    IN  IF "subscription" \notin DOMAIN headers
        THEN Outcome("KeyError", <<>>, FALSE)
        ELSE IF AddressedTo(headers, uid)
        THEN LET pieces == Split(frame.message)
             IN  IF ~Unpacks(pieces) THEN Outcome("return", <<>>, FALSE)
                 ELSE HandleMessage(pieces[3], callback)
        ELSE Outcome("return", <<>>, FALSE)

\* ------------------------------------------------------------ quantity codec
\* Longest magnitude of a wire record; also the largest dimension of a shape.
MaxLen == 4
\* A magnitude counts up from a first element between 1 and MaxValue.
MaxValue == 2

\* A number m * 10^e: a change of unit moves e, so a converted magnitude is
\* a different number from the one it was converted from.
Num(m, e) == [m |-> m, e |-> e]

RECURSIVE Pow10(_)
Pow10(n) == IF n <= 0 THEN 1 ELSE 10 * Pow10(n - 1)

\* Numeric equality of two numbers.
NumEq(a, b) ==
    LET low == IF a.e < b.e THEN a.e ELSE b.e
    IN  a.m * Pow10(a.e - low) = b.m * Pow10(b.e - low)

\* x * 10^k
Scale(x, k) == Num(x.m, x.e + k)

\* The application registry: every unit known to it, with its base unit and
\* the power of ten that converts one of it to the base unit.
UnitRegistry ==
    [meter |-> [base |-> "meter", exp10 |-> 0],
     millimeter |-> [base |-> "meter", exp10 |-> -3],
     second |-> [base |-> "second", exp10 |-> 0],
     kilogram |-> [base |-> "kilogram", exp10 |-> 0],
     ampere |-> [base |-> "ampere", exp10 |-> 0]]

\* The names a unit list may carry, in the order the lists here keep them;
\* "widget" is a name the registry does not know.
UnitNames ==
    <<"kilogram", "meter", "millimeter", "second", "ampere", "widget">>

\* A units container (pint.UnitsContainer): a set of (name, exponent) pairs,
\* no two with the same name.
Defined(units) == \A u \in units : u[1] \in DOMAIN UnitRegistry

\* Exponent of the base unit `base` in the base-unit form of `units`.
RECURSIVE BaseExponent(_, _)
BaseExponent(units, base) ==
    IF units = {} THEN 0
    ELSE LET u == CHOOSE x \in units : TRUE
         IN  (IF UnitRegistry[u[1]].base = base THEN u[2] ELSE 0)
               + BaseExponent(units \ {u}, base)

\* Power of ten that converts a magnitude in `units` to base units.
RECURSIVE BaseFactor(_)
BaseFactor(units) ==
    IF units = {} THEN 0
    ELSE LET u == CHOOSE x \in units : TRUE
         IN  u[2] * UnitRegistry[u[1]].exp10 + BaseFactor(units \ {u})

\* The base-unit form of a units container.
BaseUnits(units) ==
    {<<b, BaseExponent(units, b)>> :
        b \in {c \in {UnitRegistry[n].base : n \in DOMAIN UnitRegistry} :
                  BaseExponent(units, c) # 0}}

\* ------------------------------------------------------------------- arrays
RECURSIVE Product(_)
Product(shape) == IF shape = <<>> THEN 1 ELSE Head(shape) * Product(Tail(shape))

Front(s) == SubSeq(s, 1, Len(s) - 1)
Last(s) == s[Len(s)]

\* The index tuples of an array of this shape.
Indices(shape) ==
    {idx \in [1..Len(shape) -> 0..MaxLen + 1] :
        \A i \in 1..Len(shape) : idx[i] < shape[i]}

\* Row-major (C order): the position of index tuple idx in the flat data.
RECURSIVE Offset(_, _)
Offset(idx, shape) ==
    IF idx = <<>> THEN 0
    ELSE Offset(Front(idx), Front(shape)) * Last(shape) + Last(idx)

\* Mutant of Unravel: the flat elements are taken column-major.
RECURSIVE UnravelColumnMajor(_, _)
UnravelColumnMajor(k, shape) ==
    IF shape = <<>> THEN <<>>
    ELSE <<k % Head(shape)>>
           \o UnravelColumnMajor(k \div Head(shape), Tail(shape))

\* Row-major: the index tuple of the k-th flat element.
RECURSIVE Unravel(_, _)
Unravel(k, shape) ==
    IF shape = <<>> THEN <<>>
    ELSE Append(Unravel(k \div Last(shape), Front(shape)), k % Last(shape))

\* Mutant of Reshape: the elements are laid out column-major (Fortran order).
RECURSIVE OffsetColumnMajor(_, _)
OffsetColumnMajor(idx, shape) ==
    IF idx = <<>> THEN 0
    ELSE OffsetColumnMajor(Tail(idx), Tail(shape)) * Head(shape) + Head(idx)

ReshapeColumnMajor(flat, shape) ==
    [idx \in Indices(shape) |-> flat[OffsetColumnMajor(idx, shape) + 1]]

\* np.array(flat).reshape(shape): the elements by index tuple.
Reshape(flat, shape) ==
    [idx \in Indices(shape) |-> flat[Offset(idx, shape) + 1]]

\* numpy raises ValueError unless the shape holds exactly the elements.
CanReshape(flat, shape) == Product(shape) = Len(flat)

\* --------------------------------------------------------------- quantities
\* A pint quantity: a Python number (scalar) or a numpy array of this shape,
\* its elements by index tuple, and its units container.
Quantity(scalar, shape, elems, units) ==
    [scalar |-> scalar, shape |-> shape, elems |-> elems, units |-> units]

\* A Python number with units.
ScalarQuantity(x, units) ==
    Quantity(TRUE, <<>>, [idx \in {<<>>} |-> x], units)

NoQuantity == ScalarQuantity(Num(0, 0), {})

\* enc["shape"]: the key may be missing from the record.
NoShape == <<>>
Shape(s) == <<s>>

\* {"magnitude": [...], "shape": [...], "units": [{"name", "exponent"}, ...]}
WireRecord(magnitude, shape, units) ==
    [magnitude |-> magnitude, shape |-> shape, units |-> units]

NoRecord == WireRecord(<<>>, NoShape, <<>>)

\* What one call of decode does: the exception it raises ("None": it
\* returns), the records it logged with logger.error, and the quantity it
\* returns.
DecodeResult(raises, logged, quant) ==
    [raises |-> raises, logged |-> logged, quant |-> quant]

NoResult == DecodeResult("none", <<>>, NoQuantity)

\* Mutant of UnitsContainer: only the first unit of the record is read.
UnitsContainerFirst(pairs) == IF pairs = <<>> THEN {} ELSE {pairs[1]}

\* tuple((e["name"], e["exponent"]) for e in enc.get("units", ())) handed to
\* Quantity.from_tuple, which makes a UnitsContainer of the pairs.
UnitsContainer(pairs) == {pairs[i] : i \in DOMAIN pairs}

\* Mutant of ito_base_units: the quantity keeps the units it came with.
KeepUnits(quant) == quant

\* quant.ito_base_units(): units and magnitude are rewritten in base units.
ito_base_units(quant) ==
    Quantity(quant.scalar, quant.shape,
             [idx \in DOMAIN quant.elems |->
                 Scale(quant.elems[idx], BaseFactor(quant.units))],
             BaseUnits(quant.units))

\* Mutant of SingleElement: a one-element magnitude is taken as a scalar
\* only when the record carries no shape or an empty one.
SingleElementNoShape(enc) ==
    Len(enc.magnitude) = 1 /\ enc.shape \in {NoShape, Shape(<<>>)}

\* len(enc["magnitude"]) != 1 is false
SingleElement(enc) == Len(enc.magnitude) = 1

\* repr() of a generator object over items: "<generator object <genexpr> at
\* 0x...>".  The items that can be read in that text: none of them.
GeneratorRepr(items) == <<>>

\* logger.error("Error decoding {0}".format((enc["magnitude"], (... for e in
\* enc.get("units", ()))))): the text holds the magnitude list and, for the
\* (name, exponent) pairs of the units, the repr of the generator expression.
ErrorDecoding(enc) ==
    [level |-> "error",
     magnitude |-> enc.magnitude,
     units |-> GeneratorRepr(enc.units)]

\* The try block: from_tuple, ito_base_units; a unit the registry does not
\* know raises there, is logged by logger.error and raised again.
Converted(enc, quant) ==
    IF ~Defined(quant.units)
    THEN DecodeResult("UndefinedUnitError", <<ErrorDecoding(enc)>>, NoQuantity)
    ELSE DecodeResult("None", <<>>, ito_base_units(quant))

\* Mutant of ShapeOf: enc.get("shape", [len(enc["magnitude"])]), a record
\* without a shape is taken as one-dimensional.
ShapeOrFlat(enc) ==
    IF enc.shape = NoShape THEN Shape(<<Len(enc.magnitude)>>) ELSE enc.shape

\* enc["shape"]: NoShape stands for the KeyError of a record without the key.
ShapeOf(enc) == enc.shape

\* decode(enc).  The reshape is outside the try block: its errors are not
\* logged.
decode(enc) ==
    IF ~SingleElement(enc)
    THEN LET shape == ShapeOf(enc)
         IN  IF shape = NoShape
             THEN DecodeResult("KeyError", <<>>, NoQuantity)
             ELSE IF ~CanReshape(enc.magnitude, shape[1])
             THEN DecodeResult("ValueError", <<>>, NoQuantity)
             ELSE Converted(enc,
                            Quantity(FALSE, shape[1],
                                     Reshape(enc.magnitude, shape[1]),
                                     UnitsContainer(enc.units)))
    ELSE Converted(enc, ScalarQuantity(enc.magnitude[1],
                                       UnitsContainer(enc.units)))

\* Row-major flattening of an array's elements.
Flatten(quant) ==
    [k \in 1..Product(quant.shape) |->
        quant.elems[Unravel(k - 1, quant.shape)]]

\* Mutant of ListUnits: a compound unit is written as one entry that names
\* the whole expression.
ListUnitsMerged(units, names) ==
    IF units = {} THEN <<>>
    ELSE IF Cardinality(units) = 1 THEN <<CHOOSE u \in units : TRUE>>
    ELSE << <<"composite", 1>> >>

\* One {name, exponent} entry per unit of the container.
RECURSIVE ListUnits(_, _)
ListUnits(units, names) ==
    IF names = <<>> THEN <<>>
    ELSE (IF \E u \in units : u[1] = Head(names)
          THEN <<CHOOSE u \in units : u[1] = Head(names)>>
          ELSE <<>>) \o ListUnits(units, Tail(names))

\* encode(quantity): a scalar is wrapped in a one-element magnitude with an
\* empty shape; an array is flattened row-major and keeps its shape.
encode(quant) ==
    WireRecord(IF quant.scalar THEN <<quant.elems[<<>>]>> ELSE Flatten(quant),
               Shape(IF quant.scalar THEN <<>> ELSE quant.shape),
               ListUnits(quant.units, UnitNames))

\* ----------------------------------------------------- Quantity constructor
\* What one call of Quantity(...) does: the exception it raises ("None": it
\* returns) and the record of the object built (its to_dict()).
Construction(raises, record) == [raises |-> raises, record |-> record]

NoConstruction == Construction("none", NoRecord)

\* Mutant of Fills: a shape with room to spare is accepted.
FillsAtMost(magnitude, shape) == Len(magnitude) <= Product(shape)

\* The elements fill the shape exactly.
Fills(magnitude, shape) == Len(magnitude) = Product(shape)

\* Quantity(magnitude, units, shape): without a shape the magnitude is
\* one-dimensional; with one, the elements must fill it.
QuantityNew(magnitude, units, shape) ==
    IF shape = NoShape
    THEN Construction("None",
                      WireRecord(magnitude, Shape(<<Len(magnitude)>>), units))
    ELSE IF Fills(magnitude, shape[1])
    THEN Construction("None", WireRecord(magnitude, shape, units))
    ELSE Construction("ValueError", NoRecord)

\* ------------------------------------------------------------- codec inputs
Magnitudes ==
    {[i \in 1..n |-> Num(v + i - 1, 0)] : n \in 1..MaxLen, v \in 1..MaxValue}

Shapes ==
    {<<>>} \cup {<<a>> : a \in 0..MaxLen}
      \cup {<<a, b>> : a, b \in 0..MaxLen}

ShapeFields == {NoShape} \cup {Shape(s) : s \in Shapes}

UnitLists ==
    {<<>>,
     << <<"meter", 1>> >>,
     << <<"millimeter", 1>> >>,
     << <<"millimeter", 2>> >>,
     << <<"second", -1>> >>,
     << <<"meter", 1>>, <<"second", -1>> >>,
     << <<"millimeter", 1>>, <<"second", -2>> >>,
     << <<"kilogram", -1>>, <<"meter", -1>>, <<"second", 2>>,
        <<"ampere", 2>> >>,
     << <<"widget", 1>> >>}

WireRecords ==
    {WireRecord(m, s, u) : m \in Magnitudes, s \in ShapeFields, u \in UnitLists}

\* The quantities a caller can hold: numbers and arrays in units the
\* registry knows.
Quantities ==
    LET pairs(l) == {l[i] : i \in DOMAIN l}
        containers == {pairs(l) : l \in {x \in UnitLists : Defined(pairs(x))}}
    IN  {ScalarQuantity(Num(v, 0), c) : v \in 1..MaxValue, c \in containers}
          \cup UNION {{Quantity(FALSE, s, Reshape(m, s), c) :
                         s \in {x \in Shapes : CanReshape(m, x) /\ x # <<>>},
                         c \in containers} : m \in Magnitudes}

\* What the caller holds: a wire record, a quantity, constructor arguments
\* (magnitude, shape and units, as a record), or nothing.
Given(kind, record, quant) ==
    [kind |-> kind, record |-> record, quantity |-> quant]
NoInput == Given("none", NoRecord, NoQuantity)

\* ----------------------------------------------------------- batch listener
\* A job id no monitor tracks.
Untracked == "jobC"

\* "/topic/{id}.worker.solver.progress" for tracked and untracked ids, and
\* "/topic/", which names no id.
BatchDestinations ==
    {Destination(id) : id \in Jobs \cup {Untracked}} \cup {<<"topic">>}

BatchBodies ==
    {Dumps(StatusMsg(JOB_STATUS.Complete)),
     Dumps(StatusMsg(JOB_STATUS.Solving)),
     Prefix \o Dumps(StatusMsg(JOB_STATUS.Complete)),
     Dumps(Progress(1, MaxTotal)),
     Prefix \o Dumps(DashProgress(MaxTotal, MaxTotal)),
     Dumps(NumberValue),
     <<JunkTok>>,
     Prefix \o <<JunkTok>>}

\* The frames of the batch tests carry a destination header only.
BatchFrames ==
    {[header |-> << <<"destination", d>> >>, message |-> b] :
        d \in BatchDestinations, b \in BatchBodies}

\* extract_entity_id(destination): the id segment after "/topic/", or a
\* malformed destination.
extract_entity_id(destination) ==
    IF Len(destination) >= 2 /\ destination[1] = "topic"
    THEN [ok |-> TRUE, id |-> destination[2]]
    ELSE [ok |-> FALSE, id |-> ""]

\* The text after the first " - ".
AfterSep(body) ==
    LET i == CHOOSE n \in DOMAIN body :
                /\ body[n] = Sep
                /\ \A m \in 1..(n - 1) : body[m] # Sep
    IN  SubSeq(body, i + 1, Len(body))

\* Mutant of parse_body: a body is read only behind a "time - level - "
\* prefix.
parse_body_prefixed(raw_body) ==
    IF Cardinality({i \in DOMAIN raw_body : raw_body[i] = Sep}) >= 2
    THEN JsonLoads(Strip(AfterSep(AfterSep(raw_body))))
    ELSE [ok |-> FALSE, value |-> NumberValue]

\* parse_body(raw_body): the JSON after the second " - " when the body has
\* a two-token prefix, the whole body as JSON otherwise.
parse_body(raw_body) ==
    IF Cardinality({i \in DOMAIN raw_body : raw_body[i] = Sep}) >= 2
    THEN JsonLoads(Strip(AfterSep(AfterSep(raw_body))))
    ELSE JsonLoads(Strip(raw_body))

\* Mutant of IsTracked: every id is taken as tracked.
IsTrackedAlways(id, tracked) == TRUE

\* entity_id in tracked_job_ids
IsTracked(id, tracked) == id \in tracked

\* JobBatchProgressListener.on_message: the callback calls it makes, each
\* with (job id, payload); it returns in every case.
batch_on_message(tracked, frame) ==
    LET headers == Headers(frame)
    IN  IF "destination" \notin DOMAIN headers THEN <<>>
        ELSE LET entity == extract_entity_id(headers["destination"])
                 parsed == parse_body(frame.message)
             IN  IF ~entity.ok THEN <<>>
                 ELSE IF ~IsTracked(entity.id, tracked) THEN <<>>
                 ELSE IF ~parsed.ok THEN <<>>
                 ELSE << <<entity.id, parsed.value>> >>

\* -------------------------------------------------------------- monitor_jobs
\* A status that ends the monitoring of a job.
TerminalStatus(status) == status >= JOB_STATUS.Complete

\* The callback monitor_jobs gives the listener: the last known status of
\* the job; a job that has a terminal status is resolved and keeps it.
on_status(statuses, id, payload) ==
    IF /\ payload.kind = "object"
       /\ "status" \in payload.keys
       /\ ~TerminalStatus(statuses[id])
    THEN [statuses EXCEPT ![id] = payload.status]
    ELSE statuses

\* Mutant of AllResolved: one resolved job is enough.
SomeResolved(statuses) == \E j \in DOMAIN statuses : TerminalStatus(statuses[j])

\* Every tracked job id has a resolved status.
AllResolved(statuses) == \A j \in DOMAIN statuses : TerminalStatus(statuses[j])

\* What api.update_job_status may do: return an awaitable, return a plain
\* dict, or raise.
UpdateReturns == {"awaitable", "dict", "raises"}

\* Mutant of Accepted: the result must be an awaitable.
AcceptedAwaitable(returned) == returned = "awaitable"

\* The result of update_job_status is used as it is or awaited.
Accepted(returned) == returned \in {"awaitable", "dict"}

\* ------------------------------------------------------------------- state
VARIABLES
    pc,             \* where each async_job_monitor call is
    listeners,      \* connection: the listeners added (by job)
    subscriptions,  \* connection: the subscriptions made
    done,           \* ProgressListener.done
    callback_fn,    \* ProgressListener._callback_fn: "None" or "update_to"
    ncalls,         \* calls of the callback made so far
    lastcall,       \* arguments of the latest callback call
    update_calls,   \* api.update_job_status calls: the statuses sent
    get_job_calls,  \* api.get_job calls: the statuses read
    result,         \* value async_job_monitor returned ("None": none yet)
    event,          \* the latest frame handed to a listener and how it ended
    delivered,      \* frames delivered so far
    codec_pc,       \* codec: what was called last
    given,          \* codec: the record or quantity the caller started with
    wire,           \* codec: the record encode returned last
    decoded,        \* codec: what decode did last
    constructed,    \* codec: what the Quantity constructor did last
    batch_pc,       \* where the monitor_jobs call is
    batch_listener, \* connection: the batch listener is registered
    batch_subs,     \* connection: the job ids monitor_jobs subscribed to
    batch_updates,  \* what api.update_job_status did, by job
    job_statuses,   \* monitor_jobs: last known status by job (0: none yet)
    batch_result,   \* the mapping monitor_jobs returned ("None": none yet)
    batch_event,    \* the latest frame handed to the batch listener
    batch_delivered,\* frames handed to the batch listener so far
    batch_calls,    \* calls of the batch callback made so far
    terminal_sent   \* jobs a terminal status frame was delivered for

vars ==
    <<pc, listeners, subscriptions, done, callback_fn, ncalls, lastcall,
      update_calls, get_job_calls, result, event, delivered,
      codec_pc, given, wire, decoded, constructed,
      batch_pc, batch_listener, batch_subs, batch_updates, job_statuses,
      batch_result, batch_event, batch_delivered, batch_calls, terminal_sent>>

listener_vars == <<done, callback_fn, ncalls, lastcall>>
connection_vars == <<listeners, subscriptions>>
api_vars == <<update_calls, get_job_calls, result>>
frame_vars == <<event, delivered>>
monitor_vars ==
    <<pc, connection_vars, listener_vars, api_vars, frame_vars>>
codec_vars == <<codec_pc, given, wire, decoded, constructed>>
batch_vars ==
    <<batch_pc, batch_listener, batch_subs, batch_updates, job_statuses,
      batch_result, batch_event, batch_delivered, batch_calls, terminal_sent>>
\* What a step of a monitor or of the connection leaves alone.
other_vars == <<codec_vars, batch_vars>>

NoFrame == [header |-> <<>>, message |-> <<>>]
NoEvent == [listener |-> "none", frame |-> NoFrame, ends |-> "none"]

\* destination=f"/topic/{my_job.id}.solver.*.progress", id=uid
Subscription(j) ==
    [id |-> Uid(j), destination |-> <<"topic", j, "solver", "*", "progress">>]

\* The state before any frame arrives: the jobs in `monitored` are about to
\* be monitored by one async_job_monitor call each, the others by none.
InitWith(monitored) ==
    /\ pc = [j \in Jobs |-> IF j \in monitored THEN "start" ELSE "idle"]
    /\ listeners = {}
    /\ subscriptions = {}
    /\ done = [j \in Jobs |-> FALSE]
    /\ callback_fn = [j \in Jobs |-> "None"]
    /\ ncalls = [j \in Jobs |-> 0]
    /\ lastcall = [j \in Jobs |-> NoCall]
    /\ update_calls = [j \in Jobs |-> <<>>]
    /\ get_job_calls = [j \in Jobs |-> <<>>]
    /\ result = [j \in Jobs |-> "None"]
    /\ event = NoEvent
    /\ delivered = 0

\* Nobody calls the codec.
CodecIdle ==
    /\ codec_pc = "idle"
    /\ given = NoInput
    /\ wire = NoRecord
    /\ decoded = NoResult
    /\ constructed = NoConstruction

NoBatchEvent == [frame |-> NoFrame, calls |-> <<>>]

\* monitor_jobs is at `at`; it has done nothing yet.
BatchInitWith(at) ==
    /\ batch_pc = at
    /\ batch_listener = FALSE
    /\ batch_subs = {}
    /\ batch_updates = [j \in Jobs |-> "None"]
    /\ job_statuses = [j \in Jobs |-> 0]
    /\ batch_result = "None"
    /\ batch_event = NoBatchEvent
    /\ batch_delivered = 0
    /\ batch_calls = 0
    /\ terminal_sent = {}

\* One job is monitored.
Init == InitWith({"jobA"}) /\ CodecIdle /\ BatchInitWith("idle")

\* ------------------------------------------------------- async_job_monitor
\* listener = ProgressListener(my_job, uid); connection.add_listener(listener)
AddListener(j) ==
    /\ pc[j] = "start"
    /\ pc' = [pc EXCEPT ![j] = "added"]
    /\ done' = [done EXCEPT ![j] = FALSE]
    /\ callback_fn' = [callback_fn EXCEPT ![j] = "None"]
    /\ listeners' = listeners \cup {j}
    /\ UNCHANGED <<subscriptions, ncalls, lastcall, api_vars, frame_vars>>
    /\ UNCHANGED other_vars

\* connection.subscribe(destination=..., id=uid)
Subscribe(j) ==
    /\ pc[j] = "added"
    /\ pc' = [pc EXCEPT ![j] = "subscribed"]
    /\ subscriptions' = subscriptions \cup {Subscription(j)}
    /\ UNCHANGED <<listeners, listener_vars, api_vars, frame_vars>>
    /\ UNCHANGED other_vars

\* with TqdmUpTo(...) as pbar: listener.callback_fn = pbar.update_to
SetCallback(j) ==
    /\ pc[j] = "subscribed"
    /\ pc' = [pc EXCEPT ![j] = "ready"]
    /\ callback_fn' = [callback_fn EXCEPT ![j] = "update_to"]
    /\ UNCHANGED <<connection_vars, done, ncalls, lastcall, api_vars,
                   frame_vars>>
    /\ UNCHANGED other_vars

\* Mutant of UpdateJobStatus: the job is queued right after add_listener,
\* before the subscription is made.
UpdateJobStatusFirst(j) ==
    /\ pc[j] = "added"
    /\ update_calls' =
          [update_calls EXCEPT ![j] = Append(@, JOB_STATUS.QueuedForMeshing)]
    /\ \/ pc' = [pc EXCEPT ![j] = "waiting"]
       \/ pc' = [pc EXCEPT ![j] = "failed"]
    /\ UNCHANGED <<connection_vars, listener_vars, get_job_calls, result,
                   frame_vars>>
    /\ UNCHANGED other_vars

\* Mutant of UpdateJobStatus: a call that raises is issued again.
UpdateJobStatusRetry(j) ==
    /\ pc[j] = "ready"
    /\ update_calls' =
          [update_calls EXCEPT ![j] = Append(@, JOB_STATUS.QueuedForMeshing)]
    /\ \/ pc' = [pc EXCEPT ![j] = "waiting"]
       \/ pc' = [pc EXCEPT ![j] = "ready"]
    /\ UNCHANGED <<connection_vars, listener_vars, get_job_calls, result,
                   frame_vars>>
    /\ UNCHANGED other_vars

\* j1_result = api.update_job_status(my_job.id, JOB_STATUS["QueuedForMeshing"])
\* The call returns, or raises and the exception leaves the monitor.
UpdateJobStatus(j) ==
    /\ pc[j] = "ready"
    /\ update_calls' =
          [update_calls EXCEPT ![j] = Append(@, JOB_STATUS.QueuedForMeshing)]
    /\ \/ pc' = [pc EXCEPT ![j] = "waiting"]
       \/ pc' = [pc EXCEPT ![j] = "failed"]
    /\ UNCHANGED <<connection_vars, listener_vars, get_job_calls, result,
                   frame_vars>>
    /\ UNCHANGED other_vars

\* Mutant of LoopExits: the loop does not wait for the flag.
LoopExitsAlways(j) == TRUE

\* while not listener.done
LoopExits(j) == done[j]

\* The loop test: leave the loop, or go to sleep.
Poll(j) ==
    /\ pc[j] = "waiting"
    /\ pc' = [pc EXCEPT ![j] = IF LoopExits(j) THEN "reading" ELSE "sleeping"]
    /\ UNCHANGED <<connection_vars, listener_vars, api_vars, frame_vars>>
    /\ UNCHANGED other_vars

\* await asyncio.sleep(1) ends
Wake(j) ==
    /\ pc[j] = "sleeping"
    /\ pc' = [pc EXCEPT ![j] = "waiting"]
    /\ UNCHANGED <<connection_vars, listener_vars, api_vars, frame_vars>>
    /\ UNCHANGED other_vars

\* The task is cancelled while it awaits asyncio.sleep(1).
Cancel(j) ==
    /\ pc[j] = "sleeping"
    /\ pc' = [pc EXCEPT ![j] = "cancelled"]
    /\ UNCHANGED <<connection_vars, listener_vars, api_vars, frame_vars>>
    /\ UNCHANGED other_vars

\* return STATUS_JOB[api.get_job(my_job.id)["status"]]
\* The server answers with the job's status, or the call raises.
GetJob(j) ==
    /\ pc[j] = "reading"
    /\ \/ \E status \in StatusCodes :
            /\ get_job_calls' = [get_job_calls EXCEPT ![j] = Append(@, status)]
            /\ result' = [result EXCEPT ![j] = STATUS_JOB(status)]
            /\ pc' = [pc EXCEPT ![j] = "returned"]
       \/ /\ get_job_calls' = [get_job_calls EXCEPT ![j] = Append(@, 0)]
          /\ pc' = [pc EXCEPT ![j] = "failed"]
          /\ UNCHANGED result
    /\ UNCHANGED <<connection_vars, listener_vars, update_calls, frame_vars>>
    /\ UNCHANGED other_vars

\* ------------------------------------------------------------ the connection
\* The broker sends a frame under a subscription id only once that
\* subscription exists; "other-sub" belongs to another user of the connection.
Sendable(frame) ==
    \A j \in Jobs :
        (\E i \in DOMAIN frame.header :
            frame.header[i] = <<"subscription", Uid(j)>>)
          => Subscription(j) \in subscriptions

\* Mutant of OnMessage: the done flag is assigned on every frame.
OnMessageAssigns(j, frame) ==
    /\ j \in listeners
    /\ delivered < MaxFrames
    /\ Sendable(frame)
    /\ LET out == on_message(Uid(j), callback_fn[j], frame)
       IN  /\ done' = [done EXCEPT ![j] = out.sets]
           /\ ncalls' = [ncalls EXCEPT ![j] = @ + Len(out.call)]
           /\ lastcall' =
                [lastcall EXCEPT ![j] = IF out.call = <<>> THEN @ ELSE out.call[1]]
           /\ event' = [listener |-> j, frame |-> frame, ends |-> out.ends]
    /\ delivered' = delivered + 1
    /\ UNCHANGED <<pc, connection_vars, callback_fn, api_vars>>
    /\ UNCHANGED other_vars

\* The connection hands a received frame to a listener added to it:
\* listener.on_message(frame).
OnMessage(j, frame) ==
    /\ j \in listeners
    /\ delivered < MaxFrames
    /\ Sendable(frame)
    /\ LET out == on_message(Uid(j), callback_fn[j], frame)
       IN  /\ done' = [done EXCEPT ![j] = IF out.sets THEN TRUE ELSE @]
           /\ ncalls' = [ncalls EXCEPT ![j] = @ + Len(out.call)]
           /\ lastcall' =
                [lastcall EXCEPT ![j] = IF out.call = <<>> THEN @ ELSE out.call[1]]
           /\ event' = [listener |-> j, frame |-> frame, ends |-> out.ends]
    /\ delivered' = delivered + 1
    /\ UNCHANGED <<pc, connection_vars, callback_fn, api_vars>>
    /\ UNCHANGED other_vars

Next ==
    \/ \E j \in Jobs :
          \/ AddListener(j)
          \/ Subscribe(j)
          \/ SetCallback(j)
          \/ UpdateJobStatus(j)
          \/ Poll(j)
          \/ Wake(j)
          \/ Cancel(j)
          \/ GetJob(j)
    \/ \E j \in Jobs, frame \in Frames : OnMessage(j, frame)

Spec == Init /\ [][Next]_vars

\* The event loop keeps running a monitor that can take a step: a started
\* coroutine runs to its next await, and asyncio.sleep(1) ends.  Nothing
\* obliges the broker to send a frame, the caller to cancel or a call to fail.
MonitorStep(j) ==
    \/ AddListener(j)
    \/ Subscribe(j)
    \/ SetCallback(j)
    \/ UpdateJobStatus(j) /\ pc'[j] = "waiting"
    \/ Poll(j)
    \/ Wake(j)
    \/ GetJob(j) /\ pc'[j] = "returned"

FairSpec == Spec /\ \A j \in Jobs : WF_vars(MonitorStep(j))

\* ------------------------------------------------- two monitors, one connection
\* The frames the broker sends for the two subscriptions of the two
\* monitors: a frame for job j carries the id of j's subscription and a
\* destination of j.
PairBodies ==
    {Prefix \o Dumps(Progress(d, MaxTotal)) : d \in DoneValues}
      \cup {Prefix \o Dumps(StatusMsg(JOB_STATUS.Complete))}

PairFrames ==
    {[header |-> << <<"subscription", Uid(j)>>,
                    <<"destination", Destination(j)>> >>,
      message |-> b] : j \in Jobs, b \in PairBodies}

\* Two async_job_monitor calls, one per job, given the same connection.
PairInit == InitWith(Jobs) /\ CodecIdle /\ BatchInitWith("idle")

\* The connection hands every frame it receives to every listener added to
\* it.
PairNext ==
    \/ \E j \in Jobs :
          \/ AddListener(j)
          \/ Subscribe(j)
          \/ SetCallback(j)
          \/ UpdateJobStatus(j)
          \/ Poll(j)
          \/ Wake(j)
          \/ Cancel(j)
          \/ GetJob(j)
    \/ \E j \in Jobs, frame \in PairFrames : OnMessage(j, frame)

PairSpec == PairInit /\ [][PairNext]_vars

\* ------------------------------------------------------------ codec calls
\* A caller holds a wire record, a quantity, or the arguments of the
\* Quantity constructor; no job is monitored.
CodecInit ==
    /\ InitWith({})
    /\ \/ given \in {Given("record", r, NoQuantity) : r \in WireRecords}
       \/ given \in {Given("quantity", NoRecord, x) : x \in Quantities}
       \/ given \in {Given("arguments", r, NoQuantity) : r \in WireRecords}
    /\ codec_pc = given.kind
    /\ wire = NoRecord
    /\ decoded = NoResult
    /\ constructed = NoConstruction
    /\ BatchInitWith("idle")

\* decode(record): of the record the caller holds, or of the one encode
\* returned.
DecodeCall ==
    /\ \/ /\ codec_pc = "record"
          /\ decoded' = decode(given.record)
          /\ codec_pc' = "decoded"
       \/ /\ codec_pc = "encoded"
          /\ decoded' = decode(wire)
          /\ codec_pc' = "redecoded"
    /\ UNCHANGED <<given, wire, constructed, monitor_vars, batch_vars>>

\* encode(quantity): of the quantity the caller holds, or of the one decode
\* returned.
EncodeCall ==
    /\ \/ /\ codec_pc = "quantity"
          /\ wire' = encode(given.quantity)
          /\ codec_pc' = "encoded"
       \/ /\ codec_pc = "decoded"
          /\ decoded.raises = "None"
          /\ wire' = encode(decoded.quant)
          /\ codec_pc' = "reencoded"
    /\ UNCHANGED <<given, decoded, constructed, monitor_vars, batch_vars>>

\* Quantity(magnitude, units, shape) with the arguments the caller holds.
ConstructCall ==
    /\ codec_pc = "arguments"
    /\ constructed' = QuantityNew(given.record.magnitude, given.record.units,
                                  given.record.shape)
    /\ codec_pc' = "constructed"
    /\ UNCHANGED <<given, wire, decoded, monitor_vars, batch_vars>>

CodecNext == DecodeCall \/ EncodeCall \/ ConstructCall

CodecSpec == CodecInit /\ [][CodecNext]_vars

\* -------------------------------------------------------- monitor_jobs calls
\* monitor_jobs(api, jobs, connection) is called for both jobs.
BatchInit == InitWith({}) /\ CodecIdle /\ BatchInitWith("start")

\* The name of a status code; "None" for a job without a status.
StatusName(code) == IF code \in StatusCodes THEN STATUS_JOB(code) ELSE "None"

\* The tracked jobs a frame reports a terminal status for.
TerminalFor(frame) ==
    {j \in Jobs :
        /\ frame.header = << <<"destination", Destination(j)>> >>
        /\ frame.message \in {Dumps(StatusMsg(JOB_STATUS.Complete)),
                              Prefix \o Dumps(StatusMsg(JOB_STATUS.Complete))}}

\* One JobBatchProgressListener for all jobs is added to the connection.
AddBatchListener ==
    /\ batch_pc = "start"
    /\ batch_pc' = "setup"
    /\ batch_listener' = TRUE
    /\ UNCHANGED <<batch_subs, batch_updates, job_statuses, batch_result,
                   batch_event, batch_delivered, batch_calls, terminal_sent>>
    /\ UNCHANGED <<monitor_vars, codec_vars>>

\* connection.subscribe for the next job, once per job id.
SubscribeJob(j) ==
    /\ batch_pc = "setup"
    /\ j \notin batch_subs
    /\ \A k \in batch_subs : batch_updates[k] # "None"
    /\ batch_subs' = batch_subs \cup {j}
    /\ UNCHANGED <<batch_pc, batch_listener, batch_updates, job_statuses,
                   batch_result, batch_event, batch_delivered, batch_calls,
                   terminal_sent>>
    /\ UNCHANGED <<monitor_vars, codec_vars>>

\* api.update_job_status(job.id, JOB_STATUS["QueuedForMeshing"]) for the job
\* just subscribed; a call that raises ends monitor_jobs.
QueueJob(j) ==
    /\ batch_pc = "setup"
    /\ j \in batch_subs
    /\ batch_updates[j] = "None"
    /\ \E returned \in UpdateReturns :
          /\ batch_updates' = [batch_updates EXCEPT ![j] = returned]
          /\ batch_pc' =
                IF ~Accepted(returned) THEN "failed"
                ELSE IF batch_subs = Jobs THEN "waiting" ELSE "setup"
    /\ UNCHANGED <<batch_listener, batch_subs, job_statuses, batch_result,
                   batch_event, batch_delivered, batch_calls, terminal_sent>>
    /\ UNCHANGED <<monitor_vars, codec_vars>>

\* The wait: every job resolved, or sleep for one interval.
BatchPoll ==
    /\ batch_pc = "waiting"
    /\ batch_pc' = IF AllResolved(job_statuses) THEN "resolved" ELSE "sleeping"
    /\ UNCHANGED <<batch_listener, batch_subs, batch_updates, job_statuses,
                   batch_result, batch_event, batch_delivered, batch_calls,
                   terminal_sent>>
    /\ UNCHANGED <<monitor_vars, codec_vars>>

\* The sleep ends.
BatchWake ==
    /\ batch_pc = "sleeping"
    /\ batch_pc' = "waiting"
    /\ UNCHANGED <<batch_listener, batch_subs, batch_updates, job_statuses,
                   batch_result, batch_event, batch_delivered, batch_calls,
                   terminal_sent>>
    /\ UNCHANGED <<monitor_vars, codec_vars>>

\* The listener and the subscriptions are removed and the mapping job id ->
\* status name is returned.
BatchReturn ==
    /\ batch_pc = "resolved"
    /\ batch_pc' = "returned"
    /\ batch_result' = [j \in Jobs |-> StatusName(job_statuses[j])]
    /\ batch_listener' = FALSE
    /\ batch_subs' = {}
    /\ UNCHANGED <<batch_updates, job_statuses, batch_event, batch_delivered,
                   batch_calls, terminal_sent>>
    /\ UNCHANGED <<monitor_vars, codec_vars>>

\* The connection hands a received frame to the batch listener; the calls
\* on_message makes reach the callback of monitor_jobs before it returns.
BatchOnMessage(frame) ==
    /\ batch_listener
    /\ batch_delivered < MaxFrames
    /\ LET calls == batch_on_message(Jobs, frame)
       IN  /\ job_statuses' =
                IF calls = <<>> THEN job_statuses
                ELSE on_status(job_statuses, calls[1][1], calls[1][2])
           /\ batch_calls' = batch_calls + Len(calls)
           /\ batch_event' = [frame |-> frame, calls |-> calls]
    /\ batch_delivered' = batch_delivered + 1
    /\ terminal_sent' = terminal_sent \cup TerminalFor(frame)
    /\ UNCHANGED <<batch_pc, batch_listener, batch_subs, batch_updates,
                   batch_result>>
    /\ UNCHANGED <<monitor_vars, codec_vars>>

BatchNext ==
    \/ AddBatchListener
    \/ \E j \in Jobs : SubscribeJob(j)
    \/ \E j \in Jobs : QueueJob(j)
    \/ BatchPoll
    \/ BatchWake
    \/ BatchReturn
    \/ \E frame \in BatchFrames : BatchOnMessage(frame)

BatchSpec == BatchInit /\ [][BatchNext]_vars

\* The event loop keeps running monitor_jobs while it can take a step.
\* Nothing obliges the broker to send a frame or a call to succeed.
BatchMonitorStep ==
    \/ AddBatchListener
    \/ \E j \in Jobs : SubscribeJob(j)
    \/ \E j \in Jobs : QueueJob(j) /\ batch_pc' # "failed"
    \/ BatchPoll
    \/ BatchWake
    \/ BatchReturn

BatchFairSpec == BatchSpec /\ WF_vars(BatchMonitorStep)

\* ------------------------------------------------------ describing frames
\* The frame carries the header (key, value).
HasHeader(frame, key, value) ==
    \E i \in DOMAIN frame.header :
        frame.header[i][1] = key /\ frame.header[i][2] = value

\* The frame carries a header with this key.
HasKey(frame, key) ==
    \E i \in DOMAIN frame.header : frame.header[i][1] = key

\* The frame's destination is /topic/{j}.{...}
References(frame, j) ==
    \E i \in DOMAIN frame.header :
        frame.header[i][1] = "destination" /\ frame.header[i][2][2] = j

\* The segment of the destination that follows the job id.
WorkerOf(destination) == destination[3]

\* This step hands frame event'.frame to listener j.
Delivery(j) == delivered' = delivered + 1 /\ event'.listener = j

\* The monitor of j has ended.
Ended(j) == pc[j] \in {"returned", "cancelled", "failed"}

\* ------------------------------------------------------------------ claims

\* C1: for a listener whose callback is set, every frame under its own
\* subscription id whose body is the prefix and a {done, total} payload
\* makes on_message return after exactly one callback call, with that
\* frame's done and total, and leaves the done flag as it was unless done
\* equals total, when it is set; and the flag only ever turns true in the
\* delivery of a frame whose payload has done equal to total.
C1_ProgressCallback ==
    [][\A j \in Jobs :
          /\ \A d \in DoneValues, t \in {MaxTotal} :
                ( /\ Delivery(j)
                  /\ callback_fn[j] # "None"
                  /\ HasHeader(event'.frame, "subscription", Uid(j))
                  /\ event'.frame.message = Prefix \o Dumps(Progress(d, t)) )
                => /\ event'.ends = "return"
                   /\ ncalls'[j] = ncalls[j] + 1
                   /\ lastcall'[j] = CallArgs(d, <<t>>, "None")
                   /\ done'[j] = (done[j] \/ d = t)
          /\ (~done[j] /\ done'[j])
                => /\ Delivery(j)
                   /\ Strip(event'.frame.message)
                        = Prefix \o Dumps(Progress(MaxTotal, MaxTotal))]_vars

\* C1 witness: a non-terminal and then a terminal progress frame were
\* handled: two callback calls, the flag set by the second.
C1_Witness ==
    /\ delivered = 2
    /\ ncalls["jobA"] = 2
    /\ done["jobA"]
    /\ event.listener = "jobA"
    /\ event.frame.message = Prefix \o Dumps(Progress(MaxTotal, MaxTotal))
    /\ lastcall["jobA"] = CallArgs(MaxTotal, <<MaxTotal>>, "None")

\* C2: a frame whose destination references the listener's job id is
\* accepted (its body parsed, the callback called) also when its
\* subscription header is missing or is another subscription's id.
C2_AcceptedByDestination ==
    [][\A j \in Jobs : \A d \in DoneValues, t \in {MaxTotal} :
          ( /\ Delivery(j)
            /\ callback_fn[j] # "None"
            /\ References(event'.frame, j)
            /\ ~HasHeader(event'.frame, "subscription", Uid(j))
            /\ event'.frame.message = Prefix \o Dumps(Progress(d, t)) )
          => /\ event'.ends = "return"
             /\ ncalls'[j] = ncalls[j] + 1]_vars

\* The body is not JSON, with or without the prefix.
NotJson(body) == body \in {<<JunkTok>>, Prefix \o <<JunkTok>>}

\* C3: a frame under the listener's subscription id whose body is not
\* JSON, with or without the prefix, makes on_message return normally, call no callback and leave the done flag.
C3_MalformedBodyIgnored ==
    [][\A j \in Jobs :
          ( /\ Delivery(j)
            /\ HasHeader(event'.frame, "subscription", Uid(j))
            /\ NotJson(event'.frame.message) )
          => /\ event'.ends = "return"
             /\ ncalls'[j] = ncalls[j]
             /\ done'[j] = done[j]]_vars

\* The frame of the monitor test: own subscription id, destination of the
\* monitored job, prefixed body reporting the Complete status.
CompleteFrame(j) ==
    [header |-> << <<"subscription", Uid(j)>>,
                   <<"destination", Destination(j)>> >>,
     message |-> Prefix \o Dumps(StatusMsg(JOB_STATUS.Complete))]

\* C4: once the monitor has registered its listener, the delivery of a
\* Complete status frame to that listener leads to the monitor's end
\* (unless cancelled or failed: by returning the name of the status read).
C4_StatusFrameEndsMonitor ==
    \A j \in Jobs :
        ( /\ event.listener = j
          /\ event.frame = CompleteFrame(j)
          /\ ~Ended(j) )
        ~> ( /\ Ended(j)
             /\ pc[j] = "returned"
                  => result[j] = STATUS_JOB(get_job_calls[j][1]) )

\* C5: the monitor reads the job and returns only with the done flag set;
\* it calls api.get_job at most once, and what it returns is the name of
\* the status that one call read.
C5_ReadsOnceWhenDone ==
    \A j \in Jobs :
        /\ Len(get_job_calls[j]) <= 1
        /\ (pc[j] \in {"reading", "returned"} \/ get_job_calls[j] # <<>>)
              => done[j]
        /\ pc[j] = "returned"
              => /\ Len(get_job_calls[j]) = 1
                 /\ result[j] = STATUS_JOB(get_job_calls[j][1])
        /\ pc[j] # "returned" => result[j] = "None"

\* C5 witness: the monitor has returned the status it read.
C5_Witness ==
    /\ pc["jobA"] = "returned"
    /\ done["jobA"]
    /\ result["jobA"] = "Complete"

\* C6: when a monitor call has ended, by returning or by cancellation, its
\* listener is no longer on the connection and its subscription is gone.
C6_NothingLeftOver ==
    \A j \in Jobs :
        pc[j] \in {"returned", "cancelled"}
          => j \notin listeners /\ Subscription(j) \notin subscriptions

\* C7: the status update is sent at most once, as QueuedForMeshing, only
\* with the listener added and the subscription made, and it has been sent
\* once the monitor waits for the terminal state.
C7_QueuedAfterSubscribe ==
    \A j \in Jobs :
        /\ Len(update_calls[j]) <= 1
        /\ update_calls[j] # <<>>
              => /\ j \in listeners
                 /\ Subscription(j) \in subscriptions
                 /\ update_calls[j][1] = JOB_STATUS.QueuedForMeshing
        /\ pc[j] \in {"waiting", "sleeping", "reading", "returned", "cancelled"}
              => Len(update_calls[j]) = 1

\* C7 witness: the monitor waits, the one update sent.
C7_Witness ==
    /\ pc["jobA"] = "sleeping"
    /\ Len(update_calls["jobA"]) = 1
    /\ Subscription("jobA") \in subscriptions

\* C8: a frame with a subscription header that is not the listener's id and
\* a destination that does not reference its job is ignored: on_message
\* returns, the callback is not called, the done flag stays.
C8_ForeignFrameIgnored ==
    [][\A j \in Jobs :
          ( /\ Delivery(j)
            /\ HasKey(event'.frame, "subscription")
            /\ ~HasHeader(event'.frame, "subscription", Uid(j))
            /\ ~References(event'.frame, j) )
          => /\ event'.ends = "return"
             /\ ncalls'[j] = ncalls[j]
             /\ lastcall'[j] = lastcall[j]
             /\ done'[j] = done[j]]_vars

\* C8 witness: a terminal progress frame of another subscription and
\* another job was handed to the listener of jobA, which has its callback
\* set.
C8_Witness ==
    /\ event.listener = "jobA"
    /\ callback_fn["jobA"] # "None"
    /\ HasHeader(event.frame, "subscription", "other-sub")
    /\ HasHeader(event.frame, "destination", Destination("jobB"))
    /\ event.frame.message = Prefix \o Dumps(Progress(MaxTotal, MaxTotal))
    /\ ncalls["jobA"] = 0
    /\ ~done["jobA"]

\* C9: a body that is the JSON text alone, without the prefix, is handled
\* as the same payload behind the prefix: the callback is called with done
\* and total, and the flag is set when they are equal.
C9_RawJsonBody ==
    [][\A j \in Jobs : \A d \in DoneValues, t \in {MaxTotal} :
          ( /\ Delivery(j)
            /\ callback_fn[j] # "None"
            /\ HasHeader(event'.frame, "subscription", Uid(j))
            /\ event'.frame.message = Dumps(Progress(d, t)) )
          => /\ event'.ends = "return"
             /\ ncalls'[j] = ncalls[j] + 1
             /\ lastcall'[j] = CallArgs(d, <<t>>, "None")
             /\ done'[j] = (done[j] \/ d = t)]_vars

\* C10: an accepted frame whose payload carries a status and no done/total
\* makes on_message call the callback once, with the status, no total, and
\* the destination segment after the job id as the worker.
C10_StatusCallback ==
    [][\A j \in Jobs : \A s \in StatusCodes :
          ( /\ Delivery(j)
            /\ callback_fn[j] # "None"
            /\ HasHeader(event'.frame, "subscription", Uid(j))
            /\ HasHeader(event'.frame, "destination", Destination(j))
            /\ event'.frame.message = Prefix \o Dumps(StatusMsg(s)) )
          => /\ ncalls'[j] = ncalls[j] + 1
             /\ lastcall'[j]
                  = CallArgs(s, <<>>, WorkerOf(Destination(j)))]_vars


\* ------------------------------------------------- describing batch frames
\* A frame is handed to the batch listener in this step.
BatchDelivery == batch_delivered' = batch_delivered + 1

\* The body is the JSON text of a value, raw or behind "time - level - ".
JsonBody(body) ==
    \E v \in JsonValues : body \in {Dumps(v), Prefix \o Dumps(v)}
PayloadOf(body) ==
    CHOOSE v \in JsonValues : body \in {Dumps(v), Prefix \o Dumps(v)}

\* C11: JobBatchProgressListener.on_message: for every frame whose
\* destination is /topic/{id}.{rest} with id tracked and whose body is JSON,
\* raw or behind a "time - level - " prefix, the callback is invoked exactly
\* once, inside the on_message call, with (id, parsed payload).
C11_BatchCallback ==
    [][\A j \in Jobs :
          (/\ BatchDelivery
           /\ batch_event'.frame.header = << <<"destination", Destination(j)>> >>
           /\ JsonBody(batch_event'.frame.message))
            => /\ batch_calls' = batch_calls + 1
               /\ batch_event'.calls =
                    << <<j, PayloadOf(batch_event'.frame.message)>> >>]_vars

C11_Witness ==
    /\ batch_event.frame.header = << <<"destination", Destination("jobA")>> >>
    /\ batch_event.frame.message = Prefix \o Dumps(StatusMsg(JOB_STATUS.Complete))
    /\ batch_event.calls = << <<"jobA", StatusMsg(JOB_STATUS.Complete)>> >>
    /\ batch_calls = 1

\* C12: JobBatchProgressListener.on_message invokes the callback zero times
\* and returns, leaving every job's status as it was, for a frame whose
\* destination names an untracked job id, for a frame whose destination has
\* no id segment (/topic/), and for a frame whose body is not JSON.
C12_BatchIgnores ==
    [][(/\ BatchDelivery
        /\ \/ batch_event'.frame.header =
                 << <<"destination", Destination(Untracked)>> >>
           \/ batch_event'.frame.header = << <<"destination", <<"topic">> >> >>
           \/ ~JsonBody(batch_event'.frame.message))
         => /\ batch_calls' = batch_calls
            /\ batch_event'.calls = <<>>
            /\ job_statuses' = job_statuses
            /\ batch_pc' = batch_pc]_vars

C12_Witness ==
    /\ batch_event.frame.header = << <<"destination", Destination(Untracked)>> >>
    /\ batch_event.frame.message = Dumps(StatusMsg(JOB_STATUS.Complete))
    /\ batch_event.calls = <<>>
    /\ batch_delivered = 2
    /\ batch_calls = 0

\* C13: monitor_jobs does not return while any tracked job lacks a terminal
\* status; once a terminal status frame has been delivered for every tracked
\* job, in any order, it eventually returns (unless a status update raised)
\* a mapping whose keys are exactly the tracked job ids, each mapped to the
\* name of that job's terminal status.
C13_ReturnsWhenAllTerminal ==
    /\ [](batch_pc = "returned"
            => /\ terminal_sent = Jobs
               /\ DOMAIN batch_result = Jobs
               /\ \A j \in Jobs :
                     batch_result[j] = STATUS_JOB(JOB_STATUS.Complete))
    /\ (terminal_sent = Jobs) ~> (batch_pc \in {"returned", "failed"})

C13_Witness ==
    /\ batch_pc = "returned"
    /\ batch_result = [j \in Jobs |-> "Complete"]
    /\ batch_event.frame.header = << <<"destination", Destination("jobA")>> >>
    /\ terminal_sent = Jobs

\* C14: monitor_jobs completes normally when api.update_job_status returns
\* a plain dictionary instead of an awaitable: monitor_jobs fails only when
\* a call raised, and with a plain dictionary for each job it goes on to
\* return its mapping once every job has its terminal status.
C14_PlainDictAccepted ==
    /\ [](batch_pc = "failed"
            => \E j \in Jobs : batch_updates[j] = "raises")
    /\ ((\A j \in Jobs : batch_updates[j] = "dict") /\ terminal_sent = Jobs)
          ~> (batch_pc = "returned" /\ DOMAIN batch_result = Jobs)

C14_Witness ==
    /\ batch_pc = "returned"
    /\ \A j \in Jobs : batch_updates[j] = "dict"
    /\ batch_result = [j \in Jobs |-> "Complete"]

\* ------------------------------------------------------- describing records
\* decode was called on the record the caller holds.
Decoded == codec_pc \in {"decoded", "reencoded"}

\* Every unit of the record is one the registry knows.
KnownUnits(enc) == \A i \in DOMAIN enc.units : enc.units[i][1] \in DOMAIN UnitRegistry

\* Element count a shape of rank 0, 1 or 2 asks for.
Slots(shape) ==
    IF Len(shape) = 0 THEN 1
    ELSE IF Len(shape) = 1 THEN shape[1] ELSE shape[1] * shape[2]

\* The (name, exponent) pairs a record lists.
PairsOf(enc) == {enc.units[i] : i \in DOMAIN enc.units}

\* Power of ten between these units and base units: a millimeter is
\* 10^-3 meter.
Millis(units) ==
    LET mm == {u \in units : u[1] = "millimeter"}
    IN  IF mm = {} THEN 0 ELSE -3 * (CHOOSE u \in mm : TRUE)[2]

\* x expressed in base units, for x in these units.
InBase(x, units) == Num(x.m, x.e + Millis(units))

\* These units with every millimeter written as meter.
BaseOf(units) ==
    {<<IF u[1] = "millimeter" THEN "meter" ELSE u[1], u[2]>> : u \in units}

\* The only element of a one-element quantity.
Only(quant) == quant.elems[CHOOSE idx \in DOMAIN quant.elems : TRUE]

\* C15: decode returns a scalar quantity (the single number, in base units)
\* for every record whose magnitude has exactly one element, whatever its
\* shape field says: absent, empty, [1] or [2, 2].
C15_SingleElementIsScalar ==
    (Decoded /\ Len(given.record.magnitude) = 1 /\ KnownUnits(given.record))
      => /\ decoded.raises = "None"
         /\ decoded.quant.scalar
         /\ decoded.quant.shape = <<>>
         /\ NumEq(Only(decoded.quant),
                  InBase(given.record.magnitude[1], PairsOf(given.record)))

C15_Witness ==
    /\ codec_pc = "decoded"
    /\ Len(given.record.magnitude) = 1
    /\ given.record.shape = Shape(<<2, 2>>)
    /\ decoded.raises = "None"
    /\ decoded.quant.scalar

\* C16: for every quantity q, decode(encode(q)) equals q once both are in
\* base units, and the record encode makes lists exactly q's units, each
\* once.  A one-element array and the scalar of its element count as the
\* same quantity: a one-element magnitude is canonically a scalar.
C16_EncodeDecodeRoundTrip ==
    codec_pc = "redecoded"
      => LET q == given.quantity
             back == decoded.quant
         IN  /\ decoded.raises = "None"
             /\ back.units = BaseOf(q.units)
             /\ Cardinality(DOMAIN back.elems) = Cardinality(DOMAIN q.elems)
             /\ IF Cardinality(DOMAIN q.elems) = 1
                THEN NumEq(Only(back), InBase(Only(q), q.units))
                ELSE /\ back.shape = q.shape
                     /\ DOMAIN back.elems = DOMAIN q.elems
                     /\ \A idx \in DOMAIN q.elems :
                            NumEq(back.elems[idx], InBase(q.elems[idx], q.units))
             /\ PairsOf(wire) = q.units
             /\ Len(wire.units) = Cardinality(q.units)

C16_Witness ==
    /\ codec_pc = "redecoded"
    /\ given.quantity.shape = <<2, 2>>
    /\ given.quantity.units = {<<"millimeter", 1>>, <<"second", -2>>}
    /\ decoded.raises = "None"
    /\ decoded.quant.units = {<<"meter", 1>>, <<"second", -2>>}

\* A scalar record with an empty shape, or a multi-element record whose
\* shape holds exactly its elements.
WellFormed(enc) ==
    \/ Len(enc.magnitude) = 1 /\ enc.shape = Shape(<<>>)
    \/ /\ Len(enc.magnitude) > 1
       /\ enc.shape # NoShape
       /\ Slots(enc.shape[1]) = Len(enc.magnitude)

\* C17: for every well-formed wire record r, encode(decode(r)) has the
\* magnitude, the shape and the units list of r, also when r's unit is not
\* a base unit (millimeter).
C17_DecodeEncodeRoundTrip ==
    (codec_pc = "reencoded" /\ WellFormed(given.record))
      => /\ Len(wire.magnitude) = Len(given.record.magnitude)
         /\ \A i \in DOMAIN wire.magnitude :
                NumEq(wire.magnitude[i], given.record.magnitude[i])
         /\ wire.shape = given.record.shape
         /\ wire.units = given.record.units

FlatArrayOf(quant, enc) ==
    /\ ~quant.scalar
    /\ quant.shape = <<Len(enc.magnitude)>>
    /\ \A i \in DOMAIN enc.magnitude :
          NumEq(quant.elems[<<i - 1>>], InBase(enc.magnitude[i], PairsOf(enc)))

\* C19 as stated: decode of a record with a multi-element magnitude and no
\* shape field succeeds and yields a one-dimensional array with as many
\* elements as the magnitude.
C19_NoShapeDecodes ==
    (Decoded /\ Len(given.record.magnitude) > 1 /\ KnownUnits(given.record)
       /\ given.record.shape = NoShape)
      => decoded.raises = "None" /\ FlatArrayOf(decoded.quant, given.record)

\* C19 amended: decode of a record with a multi-element magnitude yields a
\* one-dimensional array with as many elements as the magnitude when the
\* record's shape field is [n], n the number of elements; with no shape
\* field decode raises KeyError.
C19_ShapeFieldNeeded ==
    (Decoded /\ Len(given.record.magnitude) > 1 /\ KnownUnits(given.record))
      => /\ given.record.shape = Shape(<<Len(given.record.magnitude)>>)
              => /\ decoded.raises = "None"
                 /\ FlatArrayOf(decoded.quant, given.record)
         /\ given.record.shape = NoShape => decoded.raises = "KeyError"

C19_Witness ==
    /\ codec_pc = "decoded"
    /\ Len(given.record.magnitude) = 2
    /\ given.record.units = << <<"millimeter", 2>> >>
    /\ given.record.shape = NoShape
    /\ decoded.raises = "KeyError"

\* C20: decode of a record with more than one magnitude element fails with
\* a shape-mismatch error (numpy's ValueError) whenever the element count
\* differs from the product of shape, and otherwise returns the elements
\* reshaped row-major: element (i) of a rank-1 shape is the i-th of the
\* magnitude, element (i, j) of shape [r, c] the (i*c + j)-th.
C20_ReshapeOrMismatch ==
    (Decoded /\ Len(given.record.magnitude) > 1 /\ given.record.shape # NoShape)
      => LET enc == given.record
             shape == enc.shape[1]
             quant == decoded.quant
             at(k) == InBase(enc.magnitude[k + 1], PairsOf(enc))
         IN  IF Slots(shape) # Len(enc.magnitude)
             THEN decoded.raises = "ValueError"
             ELSE KnownUnits(enc)
                    => /\ decoded.raises = "None"
                       /\ ~quant.scalar
                       /\ quant.shape = shape
                       /\ Cardinality(DOMAIN quant.elems) = Len(enc.magnitude)
                       /\ \A idx \in DOMAIN quant.elems :
                            NumEq(quant.elems[idx],
                                  IF Len(shape) = 1 THEN at(idx[1])
                                  ELSE at(idx[1] * shape[2] + idx[2]))

C20_Witness ==
    /\ codec_pc = "decoded"
    /\ Len(given.record.magnitude) = 4
    /\ given.record.shape = Shape(<<2, 2>>)
    /\ decoded.raises = "None"
    /\ decoded.quant.shape = <<2, 2>>

\* C21: encode of a quantity whose unit expression is a product of N
\* distinct primitive units yields exactly N unit entries, one per primitive
\* with its signed exponent (kilogram -1, meter -1, second 2, ampere 2),
\* never a single merged composite name, and no two entries of one record
\* share a name.
C21_OneEntryPerPrimitive ==
    codec_pc = "encoded"
      => /\ Len(wire.units) = Cardinality(given.quantity.units)
         /\ \A u \in given.quantity.units :
               \E i \in DOMAIN wire.units : wire.units[i] = u
         /\ \A i \in DOMAIN wire.units :
               wire.units[i][1] \in DOMAIN UnitRegistry
         /\ \A i, k \in DOMAIN wire.units :
               wire.units[i][1] = wire.units[k][1] => i = k

C21_Witness ==
    /\ codec_pc = "encoded"
    /\ given.quantity.units =
         {<<"kilogram", -1>>, <<"meter", -1>>, <<"second", 2>>, <<"ampere", 2>>}
    /\ wire.units =
         << <<"kilogram", -1>>, <<"meter", -1>>, <<"second", 2>>,
            <<"ampere", 2>> >>

\* C22: encode of a scalar quantity yields a magnitude of exactly one
\* element and an empty shape; encode of an array yields its elements
\* flattened in row-major order and the source shape, so the magnitude
\* length always equals the product of the shape.
C22_EncodeShape ==
    codec_pc = "encoded"
      => LET q == given.quantity
         IN  /\ Len(wire.magnitude) = Slots(wire.shape[1])
             /\ IF q.scalar
                THEN /\ Len(wire.magnitude) = 1
                     /\ wire.shape = Shape(<<>>)
                     /\ wire.magnitude[1] = Only(q)
                ELSE /\ wire.shape = Shape(q.shape)
                     /\ \A idx \in DOMAIN q.elems :
                           wire.magnitude[
                               (IF Len(q.shape) = 1 THEN idx[1]
                                ELSE idx[1] * q.shape[2] + idx[2]) + 1]
                             = q.elems[idx]

C22_Witness ==
    /\ codec_pc = "encoded"
    /\ ~given.quantity.scalar
    /\ given.quantity.shape = <<2, 2>>
    /\ wire.shape = Shape(<<2, 2>>)
    /\ wire.magnitude[2] = given.quantity.elems[<<0, 1>>]
    /\ wire.magnitude[2] # given.quantity.elems[<<1, 0>>]

\* C23: constructing a Quantity with an explicit shape succeeds exactly
\* when the number of magnitude elements equals the product of the shape,
\* and then keeps that shape; it fails with a construction error (ValueError)
\* otherwise, as for 2 elements with shape [2, 2].
C23_ConstructionShape ==
    (codec_pc = "constructed" /\ given.record.shape # NoShape)
      => IF Slots(given.record.shape[1]) = Len(given.record.magnitude)
         THEN /\ constructed.raises = "None"
              /\ constructed.record.shape = given.record.shape
              /\ constructed.record.magnitude = given.record.magnitude
         ELSE constructed.raises = "ValueError"

C23_Witness ==
    /\ codec_pc = "constructed"
    /\ Len(given.record.magnitude) = 2
    /\ given.record.shape = Shape(<<2, 2>>)
    /\ constructed.raises = "ValueError"

\* decode gets as far as the unit lookup: a one-element magnitude, or a
\* shape that holds the elements.
ReachesUnits(enc) ==
    \/ Len(enc.magnitude) = 1
    \/ enc.shape # NoShape /\ Slots(enc.shape[1]) = Len(enc.magnitude)

\* C24: when the unit registry cannot resolve a unit named in the record,
\* decode logs an error carrying the offending record (its magnitude and
\* its units) before the failure reaches the caller, and the failure is
\* propagated to the caller: decode raises and returns no value.
C24_UnitFailureLogged ==
    (Decoded /\ ~KnownUnits(given.record) /\ ReachesUnits(given.record))
      => /\ decoded.raises \notin {"None", "none"}
         /\ decoded.quant = NoQuantity
         /\ Len(decoded.logged) = 1
         /\ decoded.logged[1].level = "error"
         /\ decoded.logged[1].magnitude = given.record.magnitude
         /\ decoded.logged[1].units = given.record.units

\* The part of C24 that holds: the failure is logged once, at error level
\* with the magnitude, and raised.
C24_LoggedAndRaised ==
    (Decoded /\ ~KnownUnits(given.record) /\ ReachesUnits(given.record))
      => /\ decoded.raises = "UndefinedUnitError"
         /\ decoded.quant = NoQuantity
         /\ Len(decoded.logged) = 1
         /\ decoded.logged[1].level = "error"
         /\ decoded.logged[1].magnitude = given.record.magnitude

\* C25: if api.update_job_status or api.get_job fails during
\* async_job_monitor, the failure leaves the monitor (no status is returned
\* and the monitor takes no further step), and the failed call is not
\* issued a second time: each of the two calls is made at most once, and
\* after a failure no call is made at all.
C25_ApiFailurePropagates ==
    [][\A j \in Jobs :
         /\ update_calls'[j] # update_calls[j]
              => /\ update_calls[j] = <<>>
                 /\ pc'[j] \in {"waiting", "failed"}
         /\ get_job_calls'[j] # get_job_calls[j]
              => /\ get_job_calls[j] = <<>>
                 /\ pc'[j] \in {"returned", "failed"}
         /\ pc'[j] = "failed" => result'[j] = "None"
         /\ pc[j] = "failed"
              => /\ pc'[j] = "failed"
                 /\ update_calls'[j] = update_calls[j]
                 /\ get_job_calls'[j] = get_job_calls[j]]_vars

\* api.get_job has failed after the done flag ended the loop, and frames
\* still arrive afterwards.
C25_Witness ==
    /\ pc["jobA"] = "failed"
    /\ Len(update_calls["jobA"]) = 1
    /\ Len(get_job_calls["jobA"]) = 1
    /\ done["jobA"]
    /\ delivered = MaxFrames

\* C26: in every reachable state of async_job_monitor in which the listener
\* is registered on the connection and its subscription exists, the
\* callback has already been set, so that no progress frame under the
\* listener's subscription id is handed to a listener whose callback is
\* unset.
C26_CallbackSetWhenSubscribed ==
    \A j \in Jobs :
        /\ (j \in listeners /\ Subscription(j) \in subscriptions)
              => callback_fn[j] # "None"
        /\ ( /\ event.listener = j
             /\ HasHeader(event.frame, "subscription", Uid(j))
             /\ \E d \in DoneValues :
                   event.frame.message = Prefix \o Dumps(Progress(d, MaxTotal)) )
              => event.ends = "return"

\* C27: with two async_job_monitor calls for different jobs on one shared
\* connection that hands every frame to every listener, the delivery to job
\* B's listener of a frame produced for job A (A's subscription id, A's
\* destination) neither invokes B's callback nor sets B's done flag.
C27_NoCrossTalk ==
    [][\A a \in Jobs, b \in Jobs :
          ( /\ a # b
            /\ Delivery(b)
            /\ HasHeader(event'.frame, "subscription", Uid(a))
            /\ References(event'.frame, a) )
          => /\ event'.ends = "return"
             /\ ncalls'[b] = ncalls[b]
             /\ lastcall'[b] = lastcall[b]
             /\ done'[b] = done[b]]_vars

\* The frame reporting job A complete has set A's flag and has then been
\* handed to B's listener, whose callback is set: B is still not done.
C27_Witness ==
    /\ done["jobA"]
    /\ ~done["jobB"]
    /\ callback_fn["jobB"] # "None"
    /\ pc["jobB"] \in {"waiting", "sleeping"}
    /\ event.listener = "jobB"
    /\ event.frame.header = << <<"subscription", Uid("jobA")>>,
                               <<"destination", Destination("jobA")>> >>
    /\ event.frame.message = Prefix \o Dumps(Progress(MaxTotal, MaxTotal))
    /\ ncalls["jobB"] = 0

\* C28: for a prefixed body only the first two " - " separators delimit
\* the prefix: a frame under the listener's subscription id whose JSON
\* payload itself contains " - " is parsed as the whole text after the
\* second separator and handled like any accepted frame, so its done and
\* total reach the callback and, done being equal to total, the done flag
\* is set.
C28_DashInsidePayload ==
    [][\A j \in Jobs :
          ( /\ Delivery(j)
            /\ callback_fn[j] # "None"
            /\ HasHeader(event'.frame, "subscription", Uid(j))
            /\ event'.frame.message =
                  Prefix \o Dumps(DashProgress(MaxTotal, MaxTotal)) )
          => /\ event'.ends = "return"
             /\ ncalls'[j] = ncalls[j] + 1
             /\ lastcall'[j] = CallArgs(MaxTotal, <<MaxTotal>>, "None")
             /\ done'[j]]_vars

\* C29: a frame under the listener's subscription id whose prefixed body is
\* well-formed JSON of an unexpected shape (done without total, neither
\* done nor status, or not an object: a number, a list) makes on_message
\* return without raising and leaves the done flag unchanged.
C29_UnexpectedShapeIgnored ==
    [][\A j \in Jobs :
          ( /\ Delivery(j)
            /\ callback_fn[j] # "None"
            /\ HasHeader(event'.frame, "subscription", Uid(j))
            /\ \E v \in {DoneOnly(1), EmptyObject, NumberValue, ArrayValue} :
                  event'.frame.message = Prefix \o Dumps(v) )
          => /\ event'.ends = "return"
             /\ done'[j] = done[j]]_vars

\* C30: the listener's done flag is monotonic: it starts false and, once
\* true, no later step or frame (accepted, ignored or malformed, a later
\* progress frame with done different from total included) makes it false
\* again; so the monitor's next test of the flag after it was set leaves
\* the polling loop.
C30_DoneMonotonic ==
    /\ \A j \in Jobs : ~done[j]
    /\ [][\A j \in Jobs :
            /\ done[j] => done'[j]
            /\ (done[j] /\ pc[j] = "waiting" /\ pc'[j] # pc[j])
                  => pc'[j] = "reading"]_vars

\* The flag is set, a later progress frame with done below total has been
\* handled by the listener, and the next poll has left the loop.
C30_Witness ==
    /\ done["jobA"]
    /\ pc["jobA"] = "reading"
    /\ delivered = MaxFrames
    /\ event.listener = "jobA"
    /\ event.ends = "return"
    /\ HasHeader(event.frame, "subscription", Uid("jobA"))
    /\ event.frame.message = Prefix \o Dumps(Progress(1, MaxTotal))
    /\ ncalls["jobA"] = MaxFrames

====
